---- MODULE Spec2Model ----
(***************************************************************************)
(* Model of logiclab_kit.responses_api: the translator that consumes agno  *)
(* run events and writes an OpenAI "Responses" SSE stream                  *)
(* (streaming_response.py), with the frame builders it drives              *)
(* (schema/response_stream.py, schema/response_builder.py).                *)
(*                                                                         *)
(* The translator is one coroutine.  Each action below is the code between *)
(* two awaits of the transport: it runs only while no write is in flight,  *)
(* and the transport acknowledges (SendAck) or fails (SendRaise) the write.*)
(* The upstream source is drawn lazily: every __anext__ either yields one  *)
(* event of UpstreamEvents or raises StopAsyncIteration.                   *)
(***************************************************************************)
EXTENDS Integers, Sequences, FiniteSets, TLC

VARIABLES
    pc,         \* position of the stream_response/_do/_content coroutine
    events,     \* RunOutputEventIterator: [exhausted, event]
    upstream,   \* history: the events the upstream source has yielded
    reads,      \* history: number of __anext__ calls made on the source
    stream,     \* self._stream: None or Some(ResponseStream)
    oitem,      \* self._oitem: None or Some(output_index of the item)
    text_part,  \* _content's local text_part: None or Some(ResponseTextPart)
    content,    \* _content's local content (the chunk being handled)
    event,      \* _do's local event (the last event taken with next())
    inflight,   \* the message handed to send and not yet acknowledged
    wire,       \* the messages the transport accepted, in order
    writes,     \* history: number of send calls made
    error,      \* the exception that left stream_response, or "none"
    api,        \* the schema objects a direct caller of ResponseStream holds
    manager     \* logiclab_core.http: the HttpClientManager and its clients

vars == <<pc, events, upstream, reads, stream, oitem, text_part, content,
          event, inflight, wire, writes, error, api, manager>>

----------------------------------------------------------------------------
(* Bounds and input alphabets *)

\* Longest upstream source: after MaxEvents events it can only end.
MaxEvents == 7

\* Python's None and an optional value holding x.
None == <<>>
Some(x) == <<x>>

RunIds == {"r1"}
CreatedAts == {1000}
ItemIds == {"msg_0a1b2c3d"}
ContentTypes == {"str", "json"}
Contents == {"", "Hi", " there"}
MetricsValues ==
    {[input_tokens |-> 3, output_tokens |-> 2, total_tokens |-> 5],
     [input_tokens |-> 4, output_tokens |-> 1, total_tokens |-> 9]}

\* agno RunEvent discriminators (event.event)
run_started == "run_started"
run_content == "run_content"
run_content_completed == "run_content_completed"
run_completed == "run_completed"
run_error == "run_error"

RunStartedEvent(run_id, created_at) ==
    [event |-> run_started, run_id |-> run_id, created_at |-> created_at]
RunContentEvent(content_type, c) ==
    [event |-> run_content, content_type |-> content_type, content |-> c]
RunContentCompletedEvent == [event |-> run_content_completed]
RunCompletedEvent(metrics) == [event |-> run_completed, metrics |-> metrics]
RunErrorEvent == [event |-> run_error]

UpstreamEvents ==
    {RunStartedEvent(r, t) : r \in RunIds, t \in CreatedAts}
    \cup {RunContentEvent(ct, c) :
            ct \in ContentTypes, c \in {None} \cup {Some(s) : s \in Contents}}
    \cup {RunContentCompletedEvent}
    \cup {RunCompletedEvent(m) : m \in {None} \cup {Some(x) : x \in MetricsValues}}
    \cup {RunErrorEvent}

\* What one __anext__ on the upstream source can do.
StopAsyncIteration == "StopAsyncIteration"
ValueError == "ValueError"
SendError == "SendError"
UpstreamOutcomes ==
    {None} \cup (IF Len(upstream) < MaxEvents
                 THEN {Some(e) : e \in UpstreamEvents} ELSE {})

----------------------------------------------------------------------------
(* schema/response_builder.py *)

ResponseBuilder(id, created_at, model) ==
    [id |-> id, created_at |-> created_at, model |-> model,
     object |-> "response", output |-> <<>>, status |-> None, usage |-> None]

ResponseBuilder_status(response, status) ==
    [response EXCEPT !.status = Some(status)]

\* Mutant: total_tokens is recomputed as the sum of the two counts.
MutResponseBuilder_metrics(response, metrics) ==
    IF metrics # None
    THEN [response EXCEPT !.usage =
            Some([input_tokens |-> metrics[1].input_tokens,
                  input_tokens_details |-> [cached_tokens |-> 0],
                  output_tokens |-> metrics[1].output_tokens,
                  output_tokens_details |-> [reasoning_tokens |-> 0],
                  total_tokens |-> metrics[1].input_tokens + metrics[1].output_tokens])]
    ELSE response

ResponseBuilder_metrics(response, metrics) ==
    IF metrics # None
    THEN [response EXCEPT !.usage =
            Some([input_tokens |-> metrics[1].input_tokens,
                  input_tokens_details |-> [cached_tokens |-> 0],
                  output_tokens |-> metrics[1].output_tokens,
                  output_tokens_details |-> [reasoning_tokens |-> 0],
                  total_tokens |-> metrics[1].total_tokens])]
    ELSE response

ResponseBuilder_output(response, output) ==
    [response EXCEPT !.output = output]

----------------------------------------------------------------------------
(* schema/response_stream.py *)

\* SequenceNumberCounter.__init__: the stored _value.
SequenceNumberCounter(start) == start - 1

\* Mutant: the counter advances by two.
MutSequenceNumberCounter_call(value) == value + 2

\* SequenceNumberCounter.__call__: the new _value, which is also returned.
SequenceNumberCounter_call(value) == value + 1

\* OutputItemContext.__init__
OutputItemContext(item_id, output_index, content_index_start) ==
    [item_id |-> item_id, output_index |-> output_index,
     content_index |-> content_index_start - 1, content |-> <<>>]

\* Mutant: the property is read twice for one part, advancing the counter twice.
MutOutputItemContext_content_index(ctx) == ctx.content_index + 2

\* OutputItemContext.content_index (a property whose read advances the counter):
\* the new _content_index, which is also returned.
OutputItemContext_content_index(ctx) == ctx.content_index + 1

\* OutputItemContext.add_content
OutputItemContext_add_content(ctx, part) ==
    [ctx EXCEPT !.content = Append(@, part)]

\* ResponseOutputText(annotations=[], text=..., type="output_text", logprobs=None)
ResponseOutputText(text) ==
    [annotations |-> <<>>, text |-> text, type |-> "output_text", logprobs |-> None]

\* ResponseOutputMessage(id, content, role="assistant", status, type="message")
ResponseOutputMessage(id, c, status) ==
    [id |-> id, content |-> c, role |-> "assistant", status |-> status,
     type |-> "message"]

\* The item of stream s that has the given output_index (items are appended in
\* output_index order, new_output_item).
ItemAt(s, output_index) == s.output_items[output_index + 1]

\* The stream with ctx.sequence_number read once: the shared counter advanced.
Tick(s) == [s EXCEPT !.sequence_number = SequenceNumberCounter_call(@)]

\* ResponseStream.__init__
ResponseStream(id, created_at, model) ==
    [output_items |-> <<>>,
     output_index |-> -1,
     sequence_number |-> SequenceNumberCounter(1),
     response |-> ResponseBuilder_status(ResponseBuilder(id, created_at, model),
                                         "in_progress")]

\* A frame that holds the builder's Response object holds a reference to it:
\* build() returns self._response itself, not a copy.
ResponseRef == [ref |-> "ResponseBuilder._response"]

\* ResponseStream.enter: [self, ret]
ResponseStream_enter(s) ==
    [self |-> Tick(s),
     ret |-> [type |-> "response.created",
              response |-> ResponseRef,
              sequence_number |-> Tick(s).sequence_number]]

\* ResponseOutputItem.__init__
ResponseOutputItem(item_id, output_index) ==
    [ctx |-> OutputItemContext(item_id, output_index, 0), content_item |-> None]

\* ResponseStream.new_output_item: [self, ret]; ret is the new item's output_index.
\* item_id is the "msg_" + uuid4 prefix drawn by OutputItemContext.__init__.
ResponseStream_new_output_item(s, item_id) ==
    [self |-> [s EXCEPT !.output_index = @ + 1,
                        !.output_items =
                            Append(@, ResponseOutputItem(item_id, s.output_index + 1))],
     ret |-> s.output_index + 1]

\* ResponseOutputItem.enter on the item with index oi: [self, ret]
ResponseOutputItem_enter(s, oi) ==
    LET ctx == ItemAt(s, oi).ctx IN
    [self |-> Tick(s),
     ret |-> [type |-> "response.output_item.added",
              item |-> ResponseOutputMessage(ctx.item_id, <<>>, "in_progress"),
              output_index |-> ctx.output_index,
              sequence_number |-> Tick(s).sequence_number]]

\* ResponseOutputItem.new_text_part / ResponseTextPart.__init__: [self, ret]
ResponseOutputItem_new_text_part(s, oi) ==
    LET ctx == ItemAt(s, oi).ctx
        ci == OutputItemContext_content_index(ctx) IN
    [self |-> [s EXCEPT !.output_items[oi + 1].ctx.content_index = ci],
     ret |-> [ctx |-> oi, text |-> "", content_index |-> ci]]

\* ResponseTextPart.enter: [self, ret]
ResponseTextPart_enter(s, part) ==
    LET ctx == ItemAt(s, part.ctx).ctx IN
    [self |-> Tick(s),
     ret |-> [type |-> "response.content_part.added",
              content_index |-> part.content_index,
              item_id |-> ctx.item_id,
              output_index |-> ctx.output_index,
              part |-> ResponseOutputText(""),
              sequence_number |-> Tick(s).sequence_number]]

\* Mutant: add overwrites the buffer with the delta instead of appending.
MutResponseTextPart_add(s, part, delta) ==
    LET ctx == ItemAt(s, part.ctx).ctx IN
    [self |-> Tick(s),
     part |-> [part EXCEPT !.text = delta],
     ret |-> [type |-> "response.output_text.delta",
              content_index |-> part.content_index,
              delta |-> delta,
              item_id |-> ctx.item_id,
              logprobs |-> <<>>,
              output_index |-> ctx.output_index,
              sequence_number |-> Tick(s).sequence_number]]

\* Mutant: add reads the item's content_index property again instead of the
\* index cached at creation.
MutResponseTextPart_addRereads(s, part, delta) ==
    LET ctx == ItemAt(s, part.ctx).ctx
        ci == OutputItemContext_content_index(ctx)
        s1 == [s EXCEPT !.output_items[part.ctx + 1].ctx.content_index = ci] IN
    [self |-> Tick(s1),
     part |-> [part EXCEPT !.text = @ \o delta],
     ret |-> [type |-> "response.output_text.delta",
              content_index |-> ci,
              delta |-> delta,
              item_id |-> ctx.item_id,
              logprobs |-> <<>>,
              output_index |-> ctx.output_index,
              sequence_number |-> Tick(s1).sequence_number]]

\* ResponseTextPart.add: [self, part, ret]
ResponseTextPart_add(s, part, delta) ==
    LET ctx == ItemAt(s, part.ctx).ctx IN
    [self |-> Tick(s),
     part |-> [part EXCEPT !.text = @ \o delta],
     ret |-> [type |-> "response.output_text.delta",
              content_index |-> part.content_index,
              delta |-> delta,
              item_id |-> ctx.item_id,
              logprobs |-> <<>>,
              output_index |-> ctx.output_index,
              sequence_number |-> Tick(s).sequence_number]]

\* Mutant: an explicit text is appended to the buffer.
MutResponseTextPart_done(s, part, text) ==
    LET ctx == ItemAt(s, part.ctx).ctx
        p == IF text # None THEN [part EXCEPT !.text = @ \o text[1]] ELSE part IN
    [self |-> Tick(s),
     part |-> p,
     ret |-> [type |-> "response.output_text.done",
              content_index |-> p.content_index,
              item_id |-> ctx.item_id,
              logprobs |-> <<>>,
              output_index |-> ctx.output_index,
              sequence_number |-> Tick(s).sequence_number,
              text |-> p.text]]

\* ResponseTextPart.done: [self, part, ret]; text is None or Some(string)
ResponseTextPart_done(s, part, text) ==
    LET ctx == ItemAt(s, part.ctx).ctx
        p == IF text # None THEN [part EXCEPT !.text = text[1]] ELSE part IN
    [self |-> Tick(s),
     part |-> p,
     ret |-> [type |-> "response.output_text.done",
              content_index |-> p.content_index,
              item_id |-> ctx.item_id,
              logprobs |-> <<>>,
              output_index |-> ctx.output_index,
              sequence_number |-> Tick(s).sequence_number,
              text |-> p.text]]

\* ResponseTextPart.exit: [self, ret]
ResponseTextPart_exit(s, part) ==
    LET ctx == ItemAt(s, part.ctx).ctx
        out == ResponseOutputText(part.text)
        s1 == [s EXCEPT !.output_items[part.ctx + 1].ctx =
                            OutputItemContext_add_content(@, out)] IN
    [self |-> Tick(s1),
     ret |-> [type |-> "response.content_part.done",
              content_index |-> part.content_index,
              item_id |-> ctx.item_id,
              output_index |-> ctx.output_index,
              part |-> out,
              sequence_number |-> Tick(s1).sequence_number]]

\* ResponseOutputItem.exit: [self, ret]
ResponseOutputItem_exit(s, oi) ==
    LET ctx == ItemAt(s, oi).ctx
        msg == ResponseOutputMessage(ctx.item_id, ctx.content, "completed")
        s1 == [s EXCEPT !.output_items[oi + 1].content_item = Some(msg)] IN
    [self |-> Tick(s1),
     ret |-> [type |-> "response.output_item.done",
              item |-> msg,
              output_index |-> ctx.output_index,
              sequence_number |-> Tick(s1).sequence_number]]

\* Mutant: an item never closed is listed too, as it stands.
RECURSIVE MutClosedItems(_)
MutClosedItems(items) ==
    IF items = <<>> THEN <<>>
    ELSE <<IF Head(items).content_item # None
           THEN Head(items).content_item[1]
           ELSE ResponseOutputMessage(Head(items).ctx.item_id,
                                      Head(items).ctx.content, "in_progress")>>
         \o MutClosedItems(Tail(items))

\* [item.content_item for item in self._output_items if item.content_item is not None]
RECURSIVE ClosedItems(_)
ClosedItems(items) ==
    IF items = <<>> THEN <<>>
    ELSE (IF Head(items).content_item # None
          THEN <<Head(items).content_item[1]>> ELSE <<>>)
         \o ClosedItems(Tail(items))

\* ResponseStream.exit: [self, ret]
ResponseStream_exit(s, metrics) ==
    LET r == ResponseBuilder_metrics(
                 ResponseBuilder_status(
                     ResponseBuilder_output(s.response, ClosedItems(s.output_items)),
                     "completed"),
                 metrics)
        s1 == [s EXCEPT !.response = r] IN
    [self |-> Tick(s1),
     ret |-> [type |-> "response.completed",
              response |-> ResponseRef,
              sequence_number |-> Tick(s1).sequence_number]]

----------------------------------------------------------------------------
(* logiclab_core/http.py: HttpClientManager *)

\* HttpClientManager.__init__: no client yet.  clients are the httpx clients
\* made so far, each with whether its aclose() has been called; closing counts
\* the close() calls suspended in `await self._async_client.aclose()`.
HttpClientManager ==
    [async_client |-> None, clients |-> <<>>, closing |-> 0, calls |-> <<>>]

\* HttpClientManager._make_async_client: [self, ret], ret the new client.
HttpClientManager_make_async_client(m) ==
    [self |-> [m EXCEPT !.clients = Append(@, [aclosed |-> FALSE])],
     ret |-> Len(m.clients) + 1]

\* HttpClientManager.get_async_client: [self, ret]
HttpClientManager_get_async_client(m) ==
    LET mk == HttpClientManager_make_async_client(m)
        m1 == IF m.async_client = None
              THEN [mk.self EXCEPT !.async_client = Some(mk.ret)] ELSE m IN
    [self |-> m1, ret |-> m1.async_client[1]]

----------------------------------------------------------------------------
(* streaming_response.py: RunOutputEventIterator *)

\* RunOutputEventIterator.__init__.  closed is the state of self._iterator, the
\* upstream source: whether its aclose() was called.  No line of the
\* iterator or of StreamingResponse calls it, so no action sets it.
RunOutputEventIterator == [exhausted |-> FALSE, event |-> None, closed |-> FALSE]

\* The outcomes the next upstream __anext__ may have, when iterator it would
\* call it; a single unused outcome when it would not.
ReadOutcomes(it) ==
    IF it.event = None /\ ~it.exhausted THEN UpstreamOutcomes ELSE {None}

\* RunOutputEventIterator._read, r being the outcome of __anext__ (None: the
\* source raised StopAsyncIteration).  [self, raised, called]
RunOutputEventIterator_read(it, r) ==
    IF it.exhausted
    THEN [self |-> it, raised |-> TRUE, called |-> FALSE]
    ELSE IF r = None
         THEN [self |-> [it EXCEPT !.exhausted = TRUE], raised |-> TRUE,
               called |-> TRUE]
         ELSE [self |-> [it EXCEPT !.event = r], raised |-> FALSE, called |-> TRUE]

\* RunOutputEventIterator.next_id: [self, raised, called, ret]
RunOutputEventIterator_next_id(it, r) ==
    LET rd == IF it.event = None
              THEN RunOutputEventIterator_read(it, r)
              ELSE [self |-> it, raised |-> FALSE, called |-> FALSE] IN
    [self |-> rd.self, raised |-> rd.raised, called |-> rd.called,
     ret |-> IF rd.raised THEN "" ELSE rd.self.event[1].event]

\* Mutant: next() returns the buffered event and keeps it buffered.
MutRunOutputEventIterator_next(it, r) ==
    LET rd == IF it.event = None
              THEN RunOutputEventIterator_read(it, r)
              ELSE [self |-> it, raised |-> FALSE, called |-> FALSE] IN
    [self |-> rd.self, raised |-> rd.raised,
     called |-> rd.called, ret |-> rd.self.event]

\* RunOutputEventIterator.next: [self, raised, called, ret]
RunOutputEventIterator_next(it, r) ==
    LET rd == IF it.event = None
              THEN RunOutputEventIterator_read(it, r)
              ELSE [self |-> it, raised |-> FALSE, called |-> FALSE] IN
    [self |-> [rd.self EXCEPT !.event = None], raised |-> rd.raised,
     called |-> rd.called, ret |-> rd.self.event]

----------------------------------------------------------------------------
(* streaming_response.py: StreamingResponse *)

\* self._request (only request.model is read)
request == [model |-> "gpt"]

\* Mutant: the frame object itself is handed on, serialized only when read.
MutModelDumpJson(model, s) == [json |-> model]

\* model.model_dump_json(): the frame serialized now, the Response it refers
\* to written out with the fields it has at this moment.
model_dump_json(model, s) ==
    [json |-> IF "response" \in DOMAIN model
              THEN [model EXCEPT !.response = s.response] ELSE model]

\* The message send_model hands to send.
send_model(model, s) ==
    [type |-> "http.response.body",
     body |-> <<"data: ", model_dump_json(model, s), "\n\n">>,
     more_body |-> TRUE]

\* The message send_string hands to send.
send_string(str) ==
    [type |-> "http.response.body",
     body |-> <<"data: ", [str |-> str], "\n\n">>,
     more_body |-> TRUE]

\* Mutant: send is not awaited, the coroutine goes on at once.
MutWriteReturned == TRUE

\* The await of self._send on lines 86, 90, 94 and 102 has returned: the
\* coroutine runs on only when no write is outstanding.
WriteReturned == inflight = None

\* await self._send(message): the coroutine suspends on the write.
AwaitSend(message) ==
    /\ inflight' = Some(message)
    /\ writes' = writes + 1

\* An exception leaves _do and stream_response (neither catches anything).
Raise(exc) ==
    /\ pc' = "failed"
    /\ error' = exc

\* History of the upstream source across one next_id()/next() call.
Pulled(n, r) ==
    /\ reads' = reads + (IF n.called THEN 1 ELSE 0)
    /\ upstream' = IF n.called /\ r # None THEN Append(upstream, r[1]) ELSE upstream

Init ==
    /\ pc = "stream_response"
    /\ events = RunOutputEventIterator
    /\ upstream = <<>>
    /\ reads = 0
    /\ stream = None
    /\ oitem = None
    /\ text_part = None
    /\ content = None
    /\ event = None
    /\ inflight = None
    /\ wire = <<>>
    /\ writes = 0
    /\ error = "none"
    /\ api = [stream |-> None, parts |-> <<>>, calls |-> <<>>]
    /\ manager = HttpClientManager

\* stream_response, lines 93-100: send http.response.start, then enter _do.
StreamResponseStart ==
    /\ pc = "stream_response" /\ WriteReturned
    /\ AwaitSend([type |-> "http.response.start", status |-> 200])
    /\ pc' = "do"
    /\ UNCHANGED <<events, upstream, reads, stream, oitem, text_part, content,
                   event, wire, error>>
    /\ UNCHANGED <<api, manager>>

\* _do, lines 105-115: the first event must be run_started; response.created.
DoRunStarted ==
    /\ pc = "do" /\ WriteReturned
    /\ \E r \in ReadOutcomes(events) :
         LET n == RunOutputEventIterator_next_id(events, r) IN
         /\ Pulled(n, r)
         /\ IF n.raised
            THEN /\ Raise(StopAsyncIteration)
                 /\ events' = n.self
                 /\ UNCHANGED <<stream, event, inflight, writes>>
            ELSE IF n.ret # run_started
            THEN /\ Raise(ValueError)
                 /\ events' = n.self
                 /\ UNCHANGED <<stream, event, inflight, writes>>
            ELSE LET x == RunOutputEventIterator_next(n.self, None)
                     ev == x.ret[1]
                     e == ResponseStream_enter(
                              ResponseStream(ev.run_id, ev.created_at, request.model))
                 IN /\ events' = x.self
                    /\ event' = x.ret
                    /\ stream' = Some(e.self)
                    /\ AwaitSend(send_model(e.ret, e.self))
                    /\ pc' = "new_output_item"
                    /\ error' = error
    /\ UNCHANGED <<oitem, text_part, content, wire>>
    /\ UNCHANGED <<api, manager>>

\* _do, lines 117-118: open the output item; response.output_item.added.
DoNewOutputItem ==
    /\ pc = "new_output_item" /\ WriteReturned
    /\ \E item_id \in ItemIds :
         LET n == ResponseStream_new_output_item(stream[1], item_id)
             e == ResponseOutputItem_enter(n.self, n.ret) IN
         /\ oitem' = Some(n.ret)
         /\ stream' = Some(e.self)
         /\ AwaitSend(send_model(e.ret, e.self))
    /\ pc' = "content"
    /\ UNCHANGED <<events, upstream, reads, text_part, content, event, wire, error>>
    /\ UNCHANGED <<api, manager>>

\* str(content) on line 145: the chunks of the model are strings already.
str(c) == c

\* Mutant: no chunk is taken to be empty.
MutIsEmptyContent(c) == FALSE

\* _content, line 146: an empty chunk is skipped.
IsEmptyContent(c) == c = ""

\* Mutant: every chunk is taken to need a new part.
MutNoTextPart(tp) == TRUE

\* _content, line 148: text_part is None, a part has to be opened first.
NoTextPart(tp) == tp = None

\* _content, lines 136-152: a run_content event.
ContentRunContent ==
    /\ pc = "content" /\ WriteReturned
    /\ \E r \in ReadOutcomes(events) :
         LET n == RunOutputEventIterator_next_id(events, r) IN
         /\ ~n.raised /\ n.ret = run_content
         /\ Pulled(n, r)
         /\ LET x == RunOutputEventIterator_next(n.self, None)
                ev == x.ret[1] IN
            /\ events' = x.self
            /\ IF ev.content_type # "str" \/ ev.content = None
               THEN /\ Raise(ValueError)
                    /\ UNCHANGED <<stream, text_part, content, inflight, writes>>
               ELSE LET c == str(ev.content[1]) IN
                    IF IsEmptyContent(c)
                    THEN /\ content' = Some(c)
                         /\ UNCHANGED <<pc, error, stream, text_part, inflight, writes>>
                    ELSE IF NoTextPart(text_part)
                    THEN LET p == ResponseOutputItem_new_text_part(stream[1], oitem[1])
                             e == ResponseTextPart_enter(p.self, p.ret) IN
                         /\ content' = Some(c)
                         /\ text_part' = Some(p.ret)
                         /\ stream' = Some(e.self)
                         /\ AwaitSend(send_model(e.ret, e.self))
                         /\ pc' = "content_add"
                         /\ error' = error
                    ELSE LET a == ResponseTextPart_add(stream[1], text_part[1], c) IN
                         /\ content' = Some(c)
                         /\ text_part' = Some(a.part)
                         /\ stream' = Some(a.self)
                         /\ AwaitSend(send_model(a.ret, a.self))
                         /\ UNCHANGED <<pc, error>>
    /\ UNCHANGED <<oitem, event, wire>>
    /\ UNCHANGED <<api, manager>>

\* Mutant: the chunk that opens a part gets no delta of its own.
MutContentAdd ==
    /\ pc = "content_add" /\ WriteReturned
    /\ pc' = "content"
    /\ UNCHANGED <<events, upstream, reads, stream, oitem, text_part, content,
                   event, inflight, wire, writes, error>>
    /\ UNCHANGED <<api, manager>>

\* _content, lines 151-152: the delta of the chunk that opened the part.
ContentAdd ==
    /\ pc = "content_add" /\ WriteReturned
    /\ LET a == ResponseTextPart_add(stream[1], text_part[1], content[1]) IN
       /\ text_part' = Some(a.part)
       /\ stream' = Some(a.self)
       /\ AwaitSend(send_model(a.ret, a.self))
    /\ pc' = "content"
    /\ UNCHANGED <<events, upstream, reads, oitem, content, event, wire, error>>
    /\ UNCHANGED <<api, manager>>

\* Mutant: a run_content_completed without an open part is skipped.
MutContentRunContentCompleted ==
    /\ pc = "content" /\ WriteReturned
    /\ \E r \in ReadOutcomes(events) :
         LET n == RunOutputEventIterator_next_id(events, r) IN
         /\ ~n.raised /\ n.ret = run_content_completed
         /\ Pulled(n, r)
         /\ events' = RunOutputEventIterator_next(n.self, None).self
         /\ IF text_part = None
            THEN UNCHANGED <<pc, error, stream, text_part, inflight, writes>>
            ELSE LET d == ResponseTextPart_done(stream[1], text_part[1], None) IN
                 /\ text_part' = Some(d.part)
                 /\ stream' = Some(d.self)
                 /\ AwaitSend(send_model(d.ret, d.self))
                 /\ pc' = "content_exit"
                 /\ error' = error
    /\ UNCHANGED <<oitem, content, event, wire>>
    /\ UNCHANGED <<api, manager>>

\* _content, lines 136, 154-158: a run_content_completed event.
ContentRunContentCompleted ==
    /\ pc = "content" /\ WriteReturned
    /\ \E r \in ReadOutcomes(events) :
         LET n == RunOutputEventIterator_next_id(events, r) IN
         /\ ~n.raised /\ n.ret = run_content_completed
         /\ Pulled(n, r)
         /\ events' = RunOutputEventIterator_next(n.self, None).self
         /\ IF text_part = None
            THEN /\ Raise(ValueError)
                 /\ UNCHANGED <<stream, text_part, inflight, writes>>
            ELSE LET d == ResponseTextPart_done(stream[1], text_part[1], None) IN
                 /\ text_part' = Some(d.part)
                 /\ stream' = Some(d.self)
                 /\ AwaitSend(send_model(d.ret, d.self))
                 /\ pc' = "content_exit"
                 /\ error' = error
    /\ UNCHANGED <<oitem, content, event, wire>>
    /\ UNCHANGED <<api, manager>>

\* Mutant: after a part is closed a new output item is opened for the next.
MutContentExit ==
    /\ pc = "content_exit" /\ WriteReturned
    /\ LET x == ResponseTextPart_exit(stream[1], text_part[1]) IN
       /\ stream' = Some(x.self)
       /\ AwaitSend(send_model(x.ret, x.self))
    /\ text_part' = None
    /\ pc' = "new_output_item"
    /\ UNCHANGED <<events, upstream, reads, oitem, content, event, wire, error>>
    /\ UNCHANGED <<api, manager>>

\* _content, lines 159-161: close the part.  The assignment text_part = None
\* follows the await; it is folded in, since a failed write leaves _content
\* and its locals for good.
ContentExit ==
    /\ pc = "content_exit" /\ WriteReturned
    /\ LET x == ResponseTextPart_exit(stream[1], text_part[1]) IN
       /\ stream' = Some(x.self)
       /\ AwaitSend(send_model(x.ret, x.self))
    /\ text_part' = None
    /\ pc' = "content"
    /\ UNCHANGED <<events, upstream, reads, oitem, content, event, wire, error>>
    /\ UNCHANGED <<api, manager>>

\* Mutant: run_completed closes the item without looking for an open part.
MutContentRunCompleted ==
    /\ pc = "content" /\ WriteReturned
    /\ \E r \in ReadOutcomes(events) :
         LET n == RunOutputEventIterator_next_id(events, r) IN
         /\ ~n.raised /\ n.ret = run_completed
         /\ Pulled(n, r)
         /\ LET x == RunOutputEventIterator_next(n.self, None)
                e == ResponseOutputItem_exit(stream[1], oitem[1]) IN
            /\ events' = x.self
            /\ event' = x.ret
            /\ stream' = Some(e.self)
            /\ AwaitSend(send_model(e.ret, e.self))
            /\ pc' = "stream_exit"
            /\ error' = error
    /\ UNCHANGED <<oitem, text_part, content, wire>>
    /\ UNCHANGED <<api, manager>>

\* Mutant: run_completed goes straight to response.completed, the item's
\* exit() and its output_item.done frame forgotten.
MutContentRunCompletedNoItemDone ==
    /\ pc = "content" /\ WriteReturned
    /\ \E r \in ReadOutcomes(events) :
         LET n == RunOutputEventIterator_next_id(events, r) IN
         /\ ~n.raised /\ n.ret = run_completed
         /\ Pulled(n, r)
         /\ IF text_part # None
            THEN /\ Raise(ValueError)
                 /\ events' = n.self
                 /\ UNCHANGED <<stream, event, inflight, writes>>
            ELSE LET x == RunOutputEventIterator_next(n.self, None)
                     e == ResponseStream_exit(stream[1], x.ret[1].metrics) IN
                 /\ events' = x.self
                 /\ event' = x.ret
                 /\ stream' = Some(e.self)
                 /\ AwaitSend(send_model(e.ret, e.self))
                 /\ pc' = "send_done"
                 /\ error' = error
    /\ UNCHANGED <<oitem, text_part, content, wire>>
    /\ UNCHANGED <<api, manager>>

\* _content, lines 136, 163-167, then _do, lines 122-127: a run_completed
\* event ends the content loop, is taken from the iterator and closes the item.
ContentRunCompleted ==
    /\ pc = "content" /\ WriteReturned
    /\ \E r \in ReadOutcomes(events) :
         LET n == RunOutputEventIterator_next_id(events, r) IN
         /\ ~n.raised /\ n.ret = run_completed
         /\ Pulled(n, r)
         /\ IF text_part # None
            THEN /\ Raise(ValueError)
                 /\ events' = n.self
                 /\ UNCHANGED <<stream, event, inflight, writes>>
            ELSE LET id == RunOutputEventIterator_next_id(n.self, None) IN
                 IF id.ret # run_completed
                 THEN /\ Raise(ValueError)
                      /\ events' = id.self
                      /\ UNCHANGED <<stream, event, inflight, writes>>
                 ELSE LET x == RunOutputEventIterator_next(id.self, None)
                          e == ResponseOutputItem_exit(stream[1], oitem[1]) IN
                      /\ events' = x.self
                      /\ event' = x.ret
                      /\ stream' = Some(e.self)
                      /\ AwaitSend(send_model(e.ret, e.self))
                      /\ pc' = "stream_exit"
                      /\ error' = error
    /\ UNCHANGED <<oitem, text_part, content, wire>>
    /\ UNCHANGED <<api, manager>>

\* Mutant: an event the loop does not know is consumed and skipped.
MutContentUnexpected ==
    /\ pc = "content" /\ WriteReturned
    /\ \E r \in ReadOutcomes(events) :
         LET n == RunOutputEventIterator_next_id(events, r) IN
         /\ ~n.raised
         /\ n.ret \notin {run_content, run_content_completed, run_completed}
         /\ Pulled(n, r)
         /\ events' = RunOutputEventIterator_next(n.self, None).self
    /\ UNCHANGED <<pc, error, stream, oitem, text_part, content, event, inflight,
                   wire, writes>>
    /\ UNCHANGED <<api, manager>>

\* _content, lines 136, 169: any other discriminator (run_started included).
ContentUnexpected ==
    /\ pc = "content" /\ WriteReturned
    /\ \E r \in ReadOutcomes(events) :
         LET n == RunOutputEventIterator_next_id(events, r) IN
         /\ ~n.raised
         /\ n.ret \notin {run_content, run_content_completed, run_completed}
         /\ Pulled(n, r)
         /\ events' = n.self
    /\ Raise(ValueError)
    /\ UNCHANGED <<stream, oitem, text_part, content, event, inflight, wire, writes>>
    /\ UNCHANGED <<api, manager>>

\* Mutant: the end of the source is answered with [DONE] before failing.
MutContentExhaustedSentinel ==
    /\ pc = "content" /\ WriteReturned
    /\ \E r \in ReadOutcomes(events) :
         LET n == RunOutputEventIterator_next_id(events, r) IN
         /\ n.raised
         /\ Pulled(n, r)
         /\ events' = n.self
    /\ AwaitSend(send_string("[DONE]"))
    /\ Raise(StopAsyncIteration)
    /\ UNCHANGED <<stream, oitem, text_part, content, event, wire>>
    /\ UNCHANGED <<api, manager>>

\* Mutant: the end of the source is taken for a run_completed without metrics.
MutContentExhaustedCompletes ==
    /\ pc = "content" /\ WriteReturned
    /\ \E r \in ReadOutcomes(events) :
         LET n == RunOutputEventIterator_next_id(events, r)
             e == ResponseOutputItem_exit(stream[1], oitem[1]) IN
         /\ n.raised
         /\ Pulled(n, r)
         /\ events' = n.self
         /\ event' = Some(RunCompletedEvent(None))
         /\ stream' = Some(e.self)
         /\ AwaitSend(send_model(e.ret, e.self))
    /\ pc' = "stream_exit"
    /\ UNCHANGED <<oitem, text_part, content, wire, error>>
    /\ UNCHANGED <<api, manager>>

\* _content, line 136: the source ends; StopAsyncIteration leaves next_id.
ContentExhausted ==
    /\ pc = "content" /\ WriteReturned
    /\ \E r \in ReadOutcomes(events) :
         LET n == RunOutputEventIterator_next_id(events, r) IN
         /\ n.raised
         /\ Pulled(n, r)
         /\ events' = n.self
    /\ Raise(StopAsyncIteration)
    /\ UNCHANGED <<stream, oitem, text_part, content, event, inflight, wire, writes>>
    /\ UNCHANGED <<api, manager>>

\* _do, line 128: response.completed with the metrics of the run_completed event.
DoStreamExit ==
    /\ pc = "stream_exit" /\ WriteReturned
    /\ LET e == ResponseStream_exit(stream[1], event[1].metrics) IN
       /\ stream' = Some(e.self)
       /\ AwaitSend(send_model(e.ret, e.self))
    /\ pc' = "send_done"
    /\ UNCHANGED <<events, upstream, reads, oitem, text_part, content, event,
                   wire, error>>
    /\ UNCHANGED <<api, manager>>

\* Mutant: before the sentinel _do asks the source for one more event.
MutDoSendDoneReads ==
    /\ pc = "send_done" /\ WriteReturned
    /\ \E r \in ReadOutcomes(events) :
         LET n == RunOutputEventIterator_next_id(events, r) IN
         /\ Pulled(n, r)
         /\ events' = n.self
    /\ AwaitSend(send_string("[DONE]"))
    /\ pc' = "end_body"
    /\ UNCHANGED <<stream, oitem, text_part, content, event, wire, error>>
    /\ UNCHANGED <<api, manager>>

\* Mutant: _do returns after response.completed, the sentinel forgotten.
MutDoSendDone ==
    /\ pc = "send_done" /\ WriteReturned
    /\ pc' = "end_body"
    /\ UNCHANGED <<events, upstream, reads, stream, oitem, text_part, content,
                   event, inflight, wire, writes, error>>
    /\ UNCHANGED <<api, manager>>

\* _do, line 130: the [DONE] sentinel.
DoSendDone ==
    /\ pc = "send_done" /\ WriteReturned
    /\ AwaitSend(send_string("[DONE]"))
    /\ pc' = "end_body"
    /\ UNCHANGED <<events, upstream, reads, stream, oitem, text_part, content,
                   event, wire, error>>
    /\ UNCHANGED <<api, manager>>

\* Mutant: stream_response returns without ending the body.
MutStreamResponseEnd ==
    /\ pc = "end_body" /\ WriteReturned
    /\ pc' = "finished"
    /\ UNCHANGED <<events, upstream, reads, stream, oitem, text_part, content,
                   event, inflight, wire, writes, error>>
    /\ UNCHANGED <<api, manager>>

\* stream_response, line 102: the chunk that ends the body.
StreamResponseEnd ==
    /\ pc = "end_body" /\ WriteReturned
    /\ AwaitSend([type |-> "http.response.body", body |-> <<>>, more_body |-> FALSE])
    /\ pc' = "return"
    /\ UNCHANGED <<events, upstream, reads, stream, oitem, text_part, content,
                   event, wire, error>>
    /\ UNCHANGED <<api, manager>>

\* The transport accepts the write in flight; the coroutine resumes, and
\* returns from stream_response if that was its last statement.
SendAck ==
    /\ inflight # None
    /\ wire' = Append(wire, inflight[1])
    /\ inflight' = None
    /\ pc' = IF pc = "return" THEN "finished" ELSE pc
    /\ UNCHANGED <<events, upstream, reads, stream, oitem, text_part, content,
                   event, writes, error>>
    /\ UNCHANGED <<api, manager>>

\* Mutant: send_model swallows the failure of send and the coroutine goes on.
MutSendRaise ==
    /\ inflight # None
    /\ inflight' = None
    /\ error' = SendError
    /\ pc' = IF pc = "return" THEN "finished" ELSE pc
    /\ UNCHANGED <<events, upstream, reads, stream, oitem, text_part, content,
                   event, wire, writes>>
    /\ UNCHANGED <<api, manager>>

\* The transport fails the write in flight (the client is gone): send raises
\* inside send_model/send_string/stream_response, which catch nothing.
SendRaise ==
    /\ inflight # None
    /\ inflight' = None
    /\ Raise(SendError)
    /\ UNCHANGED <<events, upstream, reads, stream, oitem, text_part, content,
                   event, wire, writes>>
    /\ UNCHANGED <<api, manager>>

Next ==
    \/ StreamResponseStart
    \/ DoRunStarted
    \/ DoNewOutputItem
    \/ ContentRunContent
    \/ ContentAdd
    \/ ContentRunContentCompleted
    \/ ContentExit
    \/ ContentRunCompleted
    \/ ContentUnexpected
    \/ ContentExhausted
    \/ DoStreamExit
    \/ DoSendDone
    \/ StreamResponseEnd
    \/ SendAck
    \/ SendRaise

Spec == Init /\ [][Next]_vars

----------------------------------------------------------------------------
(* schema/response_stream.py driven directly: a caller that holds one        *)
(* ResponseStream and calls its methods, and those of the items and parts it *)
(* returns, in any order.  api.parts are the ResponseTextPart objects the    *)
(* caller was handed; api.calls is the history of calls with what they       *)
(* returned.                                                                 *)

\* Longest call history of the direct caller.
MaxCalls == 6

DoneTexts == {None, Some("Bye")}
ApiMetrics == {None, Some([input_tokens |-> 3, output_tokens |-> 2, total_tokens |-> 7])}

\* The state after a call that left stream s and parts ps and is logged as c.
Called(s, ps, c) ==
    api' = [stream |-> Some(s), parts |-> ps, calls |-> Append(api.calls, c)]

MoreCalls == api.stream # None /\ Len(api.calls) < MaxCalls

TranslatorIdle ==
    UNCHANGED <<pc, events, upstream, reads, stream, oitem, text_part, content,
                event, inflight, wire, writes, error, manager>>

\* ResponseStream(id, created_at, model)
ApiResponseStream ==
    /\ api.stream = None
    /\ \E r \in RunIds, c \in CreatedAts :
         api' = [api EXCEPT !.stream = Some(ResponseStream(r, c, request.model))]
    /\ TranslatorIdle

\* The "msg_" + uuid4 prefix drawn for the next item of s: like none drawn
\* for an earlier item.
FreshItemId(s) == "msg_" \o ToString(s.output_index + 1)

\* stream.new_output_item()
ApiNewOutputItem ==
    /\ MoreCalls
    /\ LET n == ResponseStream_new_output_item(api.stream[1], FreshItemId(api.stream[1])) IN
       Called(n.self, api.parts, [op |-> "new_output_item", ret |-> n.ret])
    /\ TranslatorIdle

\* item.new_text_part(), on any item created so far
ApiNewTextPart ==
    /\ MoreCalls
    /\ \E oi \in 0..api.stream[1].output_index :
         LET n == ResponseOutputItem_new_text_part(api.stream[1], oi) IN
         Called(n.self, Append(api.parts, n.ret),
                [op |-> "new_text_part", item |-> oi,
                 part |-> Len(api.parts) + 1, ret |-> n.ret.content_index])
    /\ TranslatorIdle

\* part.enter(), on any part handed out so far
ApiPartEnter ==
    /\ MoreCalls
    /\ \E h \in 1..Len(api.parts) :
         LET e == ResponseTextPart_enter(api.stream[1], api.parts[h]) IN
         Called(e.self, api.parts, [op |-> "enter", part |-> h, ret |-> e.ret])
    /\ TranslatorIdle

\* part.add(delta), on any part handed out so far
ApiPartAdd ==
    /\ MoreCalls
    /\ \E h \in 1..Len(api.parts), delta \in Contents \ {""} :
         LET a == ResponseTextPart_add(api.stream[1], api.parts[h], delta) IN
         Called(a.self, [api.parts EXCEPT ![h] = a.part],
                [op |-> "add", part |-> h, delta |-> delta, ret |-> a.ret])
    /\ TranslatorIdle

\* part.done(text)
ApiPartDone ==
    /\ MoreCalls
    /\ \E h \in 1..Len(api.parts), text \in DoneTexts :
         LET d == ResponseTextPart_done(api.stream[1], api.parts[h], text) IN
         Called(d.self, [api.parts EXCEPT ![h] = d.part],
                [op |-> "done", part |-> h, text |-> text, ret |-> d.ret])
    /\ TranslatorIdle

\* part.exit()
ApiPartExit ==
    /\ MoreCalls
    /\ \E h \in 1..Len(api.parts) :
         LET x == ResponseTextPart_exit(api.stream[1], api.parts[h]) IN
         Called(x.self, api.parts, [op |-> "exit", part |-> h, ret |-> x.ret])
    /\ TranslatorIdle

\* item.exit()
ApiItemExit ==
    /\ MoreCalls
    /\ \E oi \in 0..api.stream[1].output_index :
         LET x == ResponseOutputItem_exit(api.stream[1], oi) IN
         Called(x.self, api.parts, [op |-> "item_exit", item |-> oi, ret |-> x.ret])
    /\ TranslatorIdle

\* stream.exit(metrics); response is the Response the returned event refers to,
\* as it is when exit returns.
ApiStreamExit ==
    /\ MoreCalls
    /\ \E m \in ApiMetrics :
         LET x == ResponseStream_exit(api.stream[1], m) IN
         Called(x.self, api.parts,
                [op |-> "stream_exit", metrics |-> m, ret |-> x.ret,
                 response |-> x.self.response])
    /\ TranslatorIdle

NextApi ==
    \/ ApiResponseStream
    \/ ApiNewOutputItem
    \/ ApiNewTextPart
    \/ ApiPartEnter
    \/ ApiPartAdd
    \/ ApiPartDone
    \/ ApiPartExit
    \/ ApiItemExit
    \/ ApiStreamExit

SpecApi == Init /\ [][NextApi]_vars

\* Either the translator runs, or the schema objects are driven directly.
NextAll ==
    \/ api.stream = None /\ Next
    \/ pc = "stream_response" /\ NextApi

SpecAll == Init /\ [][NextAll]_vars

\* The translator under a fair schedule: the event loop resumes the coroutine
\* whenever it can run, the source answers every __anext__ and the transport
\* settles every write, one way or the other.
SpecFair == Spec /\ WF_vars(Next)

----------------------------------------------------------------------------
(* A direct caller of RunOutputEventIterator: any order of next_id() and
   next(), over a source of a few distinguishable events.  The iterator is
   events, the source's history upstream and reads, the calls are logged in
   api.calls with what they returned. *)

ItEvents ==
    {RunStartedEvent("r1", 1000), RunContentCompletedEvent, RunCompletedEvent(None)}

\* The outcomes of the source's __anext__, when the call would make one.
ItOutcomes(it) ==
    IF it.event = None /\ ~it.exhausted
    THEN {None} \cup {Some(e) : e \in ItEvents} ELSE {None}

MoreItCalls == api.stream = None /\ Len(api.calls) < MaxCalls

ItCalled(n, r, op) ==
    /\ events' = n.self
    /\ Pulled(n, r)
    /\ api' = [api EXCEPT !.calls =
                 Append(@, [op |-> op, raised |-> n.raised, called |-> n.called,
                            ret |-> n.ret])]
    /\ UNCHANGED <<pc, stream, oitem, text_part, content, event, inflight,
                   wire, writes, error, manager>>

\* await events.next_id()
ItNextId ==
    /\ MoreItCalls
    /\ \E r \in ItOutcomes(events) :
         ItCalled(RunOutputEventIterator_next_id(events, r), r, "next_id")

\* await events.next()
ItNext ==
    /\ MoreItCalls
    /\ \E r \in ItOutcomes(events) :
         ItCalled(RunOutputEventIterator_next(events, r), r, "next")

NextIt ==
    \/ ItNextId
    \/ ItNext

SpecIt == Init /\ [][NextIt]_vars

----------------------------------------------------------------------------
(* Callers of HttpClientManager: tasks of one event loop calling
   get_async_client() and close().  close() is a coroutine that suspends in
   aclose(); other tasks run until it is resumed. *)

MoreHttpCalls == Len(manager.calls) < MaxCalls

HttpIdle ==
    UNCHANGED <<pc, events, upstream, reads, stream, oitem, text_part, content,
                event, inflight, wire, writes, error, api>>

\* manager.get_async_client(); aclosed is the state of the returned client.
HttpGetAsyncClient ==
    /\ MoreHttpCalls
    /\ LET g == HttpClientManager_get_async_client(manager) IN
       manager' = [g.self EXCEPT !.calls =
                     Append(@, [op |-> "get_async_client", ret |-> g.ret,
                                created |-> manager.async_client = None,
                                aclosed |-> g.self.clients[g.ret].aclosed])]
    /\ HttpIdle

\* await manager.close(), lines 141-143: without a client it returns at once;
\* with one it calls aclose() on it and suspends.
HttpCloseBegin ==
    /\ MoreHttpCalls
    /\ IF manager.async_client = None
       THEN manager' = [manager EXCEPT !.calls =
                          Append(@, [op |-> "close", client |-> None])]
       ELSE manager' = [manager EXCEPT
                          !.clients[manager.async_client[1]].aclosed = TRUE,
                          !.closing = @ + 1,
                          !.calls = Append(@, [op |-> "close",
                                               client |-> manager.async_client])]
    /\ HttpIdle

\* close(), line 144: aclose() returned, the client is forgotten.
HttpCloseEnd ==
    /\ manager.closing > 0
    /\ manager' = [manager EXCEPT
                     !.async_client = None,
                     !.closing = @ - 1,
                     !.calls = Append(@, [op |-> "close_returned",
                                          forgot |-> manager.async_client])]
    /\ HttpIdle

NextHttp ==
    \/ HttpGetAsyncClient
    \/ HttpCloseBegin
    \/ HttpCloseEnd

SpecHttp == Init /\ [][NextHttp]_vars

----------------------------------------------------------------------------
(* Reading the client-visible stream *)

\* The messages handed to send so far that did not fail, in order.
Sent == wire \o inflight

IsBody(m) == m.type = "http.response.body"
IsFrame(m) == IsBody(m) /\ m.body # <<>> /\ "json" \in DOMAIN m.body[2]
IsSentinel(m) == IsBody(m) /\ m.body = <<"data: ", [str |-> "[DONE]"], "\n\n">>
IsLastChunk(m) == IsBody(m) /\ m.body = <<>> /\ ~m.more_body

\* What the client reads from one data block: the text that was written; a
\* block that still refers to the builder's Response reads as that object
\* is now.
Parsed(f) ==
    IF "response" \in DOMAIN f /\ f.response = ResponseRef
    THEN [f EXCEPT !.response = stream[1].response] ELSE f

\* The JSON frames of a message sequence, parsed back, in order.
FramesOf(msgs) ==
    LET sel == SelectSeq(msgs, IsFrame) IN
    [i \in 1..Len(sel) |-> Parsed(sel[i].body[2].json)]

Frames == FramesOf(Sent)

HasType(F, type) == \E i \in 1..Len(F) : F[i].type = type
CountType(F, type) == Cardinality({i \in 1..Len(F) : F[i].type = type})
Last(s) == s[Len(s)]

\* The deltas of frames F[1..n] for content part ci, concatenated in order.
RECURSIVE ConcatDeltas(_, _, _)
ConcatDeltas(F, n, ci) ==
    IF n = 0 THEN ""
    ELSE ConcatDeltas(F, n - 1, ci)
         \o (IF F[n].type = "response.output_text.delta" /\ F[n].content_index = ci
             THEN F[n].delta ELSE "")

\* The upstream source has the shape run_started, (run_content |
\* run_content_completed)*, run_completed.
ValidShape(u) ==
    /\ Len(u) >= 2
    /\ u[1].event = run_started
    /\ Last(u).event = run_completed
    /\ \A i \in 2..(Len(u) - 1) : u[i].event \in {run_content, run_content_completed}

Finished == pc = "finished"

----------------------------------------------------------------------------
(* Claims *)

\* C1: the sequence_number values of the frames emitted for a response are
\* 1, 2, ..., N in emission order: the i-th frame carries i, whatever its kind
\* (response, output item, content part), for every upstream sequence, the
\* valid ones included.
C1_SequenceNumbersContiguous ==
    \A i \in 1..Len(Frames) : Frames[i].sequence_number = i

\* C1 witness: a valid upstream sequence was translated to the end, with
\* frames of every level in the stream.
C1_Witness ==
    /\ Finished
    /\ ValidShape(upstream)
    /\ HasType(Frames, "response.completed")
    /\ HasType(Frames, "response.output_item.done")
    /\ CountType(Frames, "response.content_part.done") >= 2

\* The scenario of the spec's section 8.
Scenario ==
    << RunStartedEvent("r1", 1000),
       RunContentEvent("str", Some("Hi")),
       RunContentEvent("str", Some(" there")),
       RunContentCompletedEvent,
       RunCompletedEvent(Some([input_tokens |-> 3, output_tokens |-> 2,
                               total_tokens |-> 5])) >>

ScenarioTranslated == Finished /\ upstream = Scenario

\* The stream is n frames, the last one response.completed, then [DONE].
EndsAfterFrames(n) ==
    /\ Len(FramesOf(wire)) = n
    /\ Last(FramesOf(wire)).type = "response.completed"
    /\ Len(wire) >= 3
    /\ IsFrame(wire[Len(wire) - 2])
    /\ IsSentinel(wire[Len(wire) - 1])

\* C2 as claimed: the scenario is translated to exactly 8 frames, the last
\* being response.completed, followed by [DONE].
C2_Original == ScenarioTranslated => EndsAfterFrames(8)

\* C2 amended: the scenario is translated to exactly 9 frames (created,
\* item added, part added, two deltas, text done, part done, item done,
\* completed), the last being response.completed, followed by [DONE].
C2_ScenarioNineFrames == ScenarioTranslated => EndsAfterFrames(9)

\* C2 witness: the scenario has been translated to the end.
C2_Witness == ScenarioTranslated /\ error = "none" /\ Len(wire) = 12

\* C3: for every content part the translator closed, the deltas emitted for
\* it, concatenated in emission order, are the text of its
\* response.output_text.done frame and the part.text of its
\* response.content_part.done frame.
C3_DeltasConcatenateToFinalText ==
    \A i \in 1..Len(Frames) :
        /\ Frames[i].type = "response.output_text.done"
             => Frames[i].text = ConcatDeltas(Frames, i, Frames[i].content_index)
        /\ Frames[i].type = "response.content_part.done"
             => Frames[i].part.text = ConcatDeltas(Frames, i, Frames[i].content_index)

\* C3 witness: a part that received two deltas was closed, after another part.
C3_Witness ==
    \E i \in 1..Len(Frames) :
        /\ Frames[i].type = "response.content_part.done"
        /\ Frames[i].content_index = 1
        /\ Frames[i].part.text = "Hi there"

\* This step pulled one more event from the upstream source, of kind k.
TookKind(k) ==
    /\ Len(upstream') = Len(upstream) + 1
    /\ Last(upstream').event = k

\* A content part is open on the wire: added, and not yet content_part.done.
PartOpen ==
    CountType(FramesOf(wire), "response.content_part.added")
        > CountType(FramesOf(wire), "response.content_part.done")

\* The translator is in its content loop, waiting for the next event.
InContentLoop == pc = "content" /\ inflight = None

\* This step rejected the event: ValueError, and nothing handed to send.
Rejected ==
    /\ pc' = "failed"
    /\ error' = ValueError
    /\ UNCHANGED <<wire, inflight, writes>>

\* After a protocol violation nothing more is handed to send.
SilentAfterViolation ==
    error = ValueError => UNCHANGED <<wire, inflight, writes>>

EmptyContentEvent == RunContentEvent("str", Some(""))

\* C4: a run_content event with the empty string, handled in the content
\* loop, has no effect beyond being consumed: no frame, no sequence number,
\* no content part opened, no content_index allocated, part open or not.
C4_EmptyContentIgnored ==
    [][ (InContentLoop /\ TookKind(run_content)
            /\ Last(upstream') = EmptyContentEvent)
        => /\ UNCHANGED <<wire, inflight, writes, stream, oitem, text_part, pc, error>>
           /\ events'.event = None ]_vars

\* C4 witness: empty chunks were consumed both before any part was opened
\* and while a part was open, and the translator is still in its loop.
C4_Witness ==
    /\ InContentLoop
    /\ Len(upstream) >= 4
    /\ upstream[2] = EmptyContentEvent
    /\ Last(upstream) = EmptyContentEvent
    /\ PartOpen
    /\ text_part # None

\* C5: a run_content_completed event arriving while no content part is open
\* is rejected: the translator fails with no frame for that event, and no
\* frame afterwards.
C5_ContentCompletedWithoutPartRejected ==
    [][ /\ (InContentLoop /\ TookKind(run_content_completed) /\ ~PartOpen)
            => Rejected
        /\ SilentAfterViolation ]_vars

\* C5 witness: run_content("") then run_content_completed, no part ever opened.
C5_Witness ==
    /\ pc = "failed" /\ error = ValueError
    /\ Len(upstream) = 3
    /\ upstream[2] = EmptyContentEvent
    /\ upstream[3] = RunContentCompletedEvent
    /\ Len(FramesOf(wire)) = 2

\* The wire shows an open part and item that were not closed.
NoClosingFrames ==
    /\ ~HasType(FramesOf(Sent), "response.output_item.done")
    /\ ~HasType(FramesOf(Sent), "response.completed")
    /\ \A i \in 1..Len(Sent) : ~IsSentinel(Sent[i])
    /\ CountType(FramesOf(Sent), "response.output_text.done")
         = CountType(FramesOf(Sent), "response.content_part.done")
    /\ CountType(FramesOf(Sent), "response.content_part.added")
         = CountType(FramesOf(Sent), "response.content_part.done") + 1

\* C6: a run_completed event arriving while a content part is open is
\* rejected: no text-done, content-part-done, output_item.done,
\* response.completed or [DONE] is emitted, then or later.
C6_CompletedWithOpenPartRejected ==
    [][ /\ (InContentLoop /\ TookKind(run_completed) /\ PartOpen)
            => (Rejected /\ NoClosingFrames')
        /\ (error = ValueError /\ NoClosingFrames) => NoClosingFrames' ]_vars

\* C6 witness: deltas were emitted, then run_completed arrived.
C6_Witness ==
    /\ pc = "failed" /\ error = ValueError
    /\ Last(upstream).event = run_completed
    /\ PartOpen
    /\ HasType(FramesOf(wire), "response.output_text.delta")

\* The event just pulled violates the protocol where the translator stands.
ViolatesProtocol(e) ==
    \/ pc = "do" /\ e.event # run_started
    \/ pc = "content" /\ e.event = run_started
    \/ e.event \notin {run_started, run_content, run_content_completed, run_completed}
    \/ pc = "content" /\ e.event = run_content /\ e.content_type # "str"
    \/ pc = "content" /\ e.event = run_content /\ e.content = None

\* C7: a first event other than run_started, a run_started after streaming
\* has begun, an unrecognized discriminator, a run_content that is not plain
\* text, and a run_content with null content each make the translator fail
\* at that event, with no frame for it or after it (and no frame at all when
\* it is the first event).
C7_ProtocolViolationsRejected ==
    [][ /\ (Len(upstream') = Len(upstream) + 1 /\ ViolatesProtocol(Last(upstream')))
            => /\ Rejected
               /\ (pc = "do" => FramesOf(wire') = <<>>)
        /\ SilentAfterViolation ]_vars

\* C7 witness: a second run_started arrived while a content part was open.
C7_Witness ==
    /\ pc = "failed" /\ error = ValueError
    /\ Len(upstream) >= 3
    /\ Last(upstream).event = run_started
    /\ PartOpen

KnownFrameTypes ==
    {"response.created", "response.output_item.added",
     "response.content_part.added", "response.output_text.delta",
     "response.output_text.done", "response.content_part.done",
     "response.output_item.done", "response.completed"}

HasSentinel(msgs) == \E i \in 1..Len(msgs) : IsSentinel(msgs[i])
HasLastChunk(msgs) == \E i \in 1..Len(msgs) : IsLastChunk(msgs[i])

\* C8 as claimed: in every failed run, whatever the failure, neither [DONE]
\* nor response.completed was written, and the failure reached the caller.
C8_Original ==
    error # "none"
        => /\ pc = "failed"
           /\ ~HasSentinel(wire)
           /\ ~HasType(FramesOf(wire), "response.completed")

\* C8 amended: every failure reaches the caller of the translator, and after
\* it the stream stays truncated: the body-terminating chunk is never
\* written and no frame other than the translated ones (no synthetic error
\* or completion) is written.  After a protocol violation or upstream
\* exhaustion neither [DONE] nor response.completed has been written; after a
\* transport failure every earlier write is on the wire and the failed one
\* is not, so response.completed and [DONE] may precede a failed later write.
C8_FailureTruncatesStream ==
    /\ (pc = "failed") <=> (error # "none")
    /\ error # "none"
         => /\ inflight = None
            /\ ~HasLastChunk(wire)
            /\ \A i \in 1..Len(Frames) : Frames[i].type \in KnownFrameTypes
    /\ error \in {ValueError, StopAsyncIteration}
         => /\ Len(wire) = writes
            /\ ~HasSentinel(wire)
            /\ ~HasType(FramesOf(wire), "response.completed")
    /\ error = SendError => Len(wire) = writes - 1

\* C8 witness: the write of the terminating chunk failed, after
\* response.completed and [DONE] were written.
C8_Witness ==
    /\ pc = "failed" /\ error = SendError
    /\ HasType(FramesOf(wire), "response.completed")
    /\ HasSentinel(wire)

\* C9: when the upstream source ends before a run_completed event was read,
\* the translator fails with StopAsyncIteration and nothing is handed to send
\* from then on: no output_item.done, no response.completed, no [DONE].
C9_UpstreamExhaustedStops ==
    events.exhausted
        => /\ pc = "failed" /\ error = StopAsyncIteration
           /\ inflight = None
           /\ Len(wire) = writes
           /\ ~HasType(FramesOf(wire), "response.output_item.done")
           /\ ~HasType(FramesOf(wire), "response.completed")
           /\ ~HasSentinel(wire)
           /\ ~HasLastChunk(wire)

\* C9 witness: the source ended after run_started only.
C9_Witness ==
    /\ events.exhausted
    /\ Len(upstream) = 1
    /\ upstream[1].event = run_started
    /\ Len(FramesOf(wire)) = 2

\* C10: the failed transport write is the translator's last interaction with
\* the upstream source and with the sink: in the failing step and in every
\* later one, no event is read and nothing is handed to send.
C10_NothingAfterTransportFailure ==
    [][ error' = SendError
        => /\ UNCHANGED <<reads, upstream, writes, wire>>
           /\ inflight' = None
           /\ pc' = "failed" ]_vars

\* C10 witness: a frame write failed mid-stream, with a part open and an
\* upstream source that could have yielded more.
C10_Witness ==
    /\ pc = "failed" /\ error = SendError
    /\ PartOpen
    /\ Len(upstream) < MaxEvents
    /\ ~events.exhausted

\* A write handed to send has failed: it is neither on the wire nor in flight.
WriteFailed == writes > Len(Sent)

\* C11: when a transport write fails (the client disconnected), the
\* translator closes the upstream event source and no exception leaves it.
C11_DisconnectClosesUpstream ==
    WriteFailed => (events.closed /\ error = "none")

\* The calls of the direct caller's history that created an item, and those
\* that created a part on item oi, in call order.
IsNewOutputItem(c) == c.op = "new_output_item"
ItemCreations == SelectSeq(api.calls, IsNewOutputItem)
PartCreations(oi) ==
    LET IsNewPartOfItem(c) == c.op = "new_text_part" /\ c.item = oi IN
    SelectSeq(api.calls, IsNewPartOfItem)

\* The frames of the given type, in emission order.
FramesOfType(type) ==
    LET HasThisType(f) == f.type = type IN SelectSeq(Frames, HasThisType)

\* C12: whatever new_output_item and new_text_part calls were made, the
\* k-th item created on a ResponseStream has output_index k-1 and the j-th
\* part created on an item has content_index j-1 (and keeps it); in a
\* translated stream the content_part.added frames carry 0, 1, 2, ... in
\* emission order.
C12_IndicesDense ==
    /\ \A k \in 1..Len(ItemCreations) :
         /\ ItemCreations[k].ret = k - 1
         /\ api.stream[1].output_items[k].ctx.output_index = k - 1
    /\ api.stream # None =>
         /\ Len(api.stream[1].output_items) = Len(ItemCreations)
         /\ \A oi \in 0..(Len(ItemCreations) - 1) :
              \A j \in 1..Len(PartCreations(oi)) :
                  /\ PartCreations(oi)[j].ret = j - 1
                  /\ api.parts[PartCreations(oi)[j].part].content_index = j - 1
    /\ \A j \in 1..Len(FramesOfType("response.content_part.added")) :
         FramesOfType("response.content_part.added")[j].content_index = j - 1
    /\ \A k \in 1..Len(FramesOfType("response.output_item.added")) :
         FramesOfType("response.output_item.added")[k].output_index = k - 1

\* C12 witness: two items were created, two parts on the first of them and
\* one on the second, the calls interleaved.
C12_Witness ==
    /\ Len(ItemCreations) = 2
    /\ Len(PartCreations(0)) = 2
    /\ Len(PartCreations(1)) = 1
    /\ Last(api.calls).op = "new_text_part"
    /\ Last(api.calls).item = 0

\* Frame F[j] comes before position i, has the given type and belongs to
\* output item oi (and, for part frames, to content part ci).
ItemFrameBefore(F, i, type, oi) ==
    \E k \in 1..(i - 1) : F[k].type = type /\ F[k].output_index = oi
PartFrameBefore(F, i, type, oi, ci) ==
    \E k \in 1..(i - 1) :
        F[k].type = type /\ F[k].output_index = oi /\ F[k].content_index = ci

\* C13: the response.output_item.done frame of an item comes only after the
\* response.output_text.done and response.content_part.done frames of every
\* content part of that item whose response.content_part.added was emitted;
\* no part of the item is added after it.
C13_PartsClosedBeforeItem ==
    \A i \in 1..Len(Frames) :
        Frames[i].type = "response.output_item.done" =>
            \A j \in 1..Len(Frames) :
                (/\ Frames[j].type = "response.content_part.added"
                 /\ Frames[j].output_index = Frames[i].output_index)
                => /\ j < i
                   /\ PartFrameBefore(Frames, i, "response.output_text.done",
                                      Frames[j].output_index, Frames[j].content_index)
                   /\ PartFrameBefore(Frames, i, "response.content_part.done",
                                      Frames[j].output_index, Frames[j].content_index)

\* C13 witness: the item was closed after two parts were opened and closed.
C13_Witness ==
    /\ Frames # <<>>
    /\ Last(Frames).type = "response.output_item.done"
    /\ CountType(Frames, "response.content_part.added") = 2
    /\ Len(Last(Frames).item.content) = 2

\* C14: the response.completed frame comes only after the
\* response.output_item.done frame of every item whose
\* response.output_item.added was emitted, and the response it carries is
\* completed with every such item in its output, each completed.
C14_ItemsClosedBeforeCompleted ==
    \A i \in 1..Len(Frames) :
        Frames[i].type = "response.completed" =>
            /\ \A j \in 1..Len(Frames) :
                 Frames[j].type = "response.output_item.added"
                 => /\ j < i
                    /\ ItemFrameBefore(Frames, i, "response.output_item.done",
                                       Frames[j].output_index)
            /\ Frames[i].response.status = Some("completed")
            /\ Len(Frames[i].response.output)
                 = CountType(Frames, "response.output_item.added")
            /\ \A k \in 1..Len(Frames[i].response.output) :
                 Frames[i].response.output[k].status = "completed"

\* C14 witness: response.completed was emitted for a response whose item
\* holds a closed part.
C14_Witness ==
    /\ Frames # <<>>
    /\ Last(Frames).type = "response.completed"
    /\ Len(Last(Frames).response.output) = 1
    /\ Len(Last(Frames).response.output[1].content) = 1

\* C15: at every point of a translated stream at most one content part is
\* open: the content_part.added frames emitted so far exceed the
\* content_part.done frames by at most one, so a part is added only after
\* the one before it was closed.
C15_AtMostOnePartOpen ==
    /\ CountType(Frames, "response.content_part.added")
         - CountType(Frames, "response.content_part.done") \in {0, 1}
    /\ \A j \in 1..Len(Frames) :
         (Frames[j].type = "response.content_part.added" /\ Frames[j].content_index > 0)
         => PartFrameBefore(Frames, j, "response.content_part.done",
                            Frames[j].output_index, Frames[j].content_index - 1)

\* C15 witness: a second part is open, after the first one was closed, and
\* has received two deltas.
C15_Witness ==
    /\ CountType(Frames, "response.content_part.added") = 2
    /\ CountType(Frames, "response.content_part.done") = 1
    /\ CountType(Frames, "response.output_text.delta") >= 3
    /\ Last(Frames).type = "response.output_text.delta"

\* The upstream events read so far that put a delta frame on the stream.
ProducesDelta(e) ==
    /\ e.event = run_content
    /\ e.content # None
    /\ ~IsEmptyContent(e.content[1])
ClosesPart(e) == e.event = run_content_completed

\* C16: the translator asks the upstream source for an event only when no
\* write is outstanding and every frame of the events read before is on the
\* wire, acknowledged; it hands a message to send only when the one before
\* was acknowledged, so at most one write is in flight and a sink that does
\* not acknowledge stalls the reading of the source.
C16_ReadsWaitForWrites ==
    [][ /\ reads' # reads
          => /\ inflight = None
             /\ Len(wire) = writes
             /\ CountType(FramesOf(wire), "response.output_text.delta")
                  = Len(SelectSeq(upstream, ProducesDelta))
             /\ CountType(FramesOf(wire), "response.content_part.done")
                  = Len(SelectSeq(upstream, ClosesPart))
        /\ writes' # writes
          => /\ inflight = None
             /\ Len(wire) = writes
             /\ writes' = writes + 1
      ]_vars

\* C16 witness: the delta of the second chunk is in flight, unacknowledged,
\* and the source has not been asked for the event after it.
C16_Witness ==
    /\ inflight # None
    /\ IsFrame(inflight[1])
    /\ inflight[1].body[2].json.type = "response.output_text.delta"
    /\ CountType(Frames, "response.output_text.delta") = 2
    /\ reads = 3

\* C17: the usage of the response.completed frame comes from the metrics of
\* the run_completed event alone: with metrics, its input_tokens,
\* output_tokens and total_tokens are the metrics' values unchanged, whatever
\* text was streamed; without metrics, usage is null.
C17_UsageFromMetrics ==
    \A i \in 1..Len(Frames) :
        Frames[i].type = "response.completed" =>
            LET e == Last(upstream)
                u == Frames[i].response.usage IN
            /\ e.event = run_completed
            /\ e.metrics = None => u = None
            /\ e.metrics # None
                 => /\ u # None
                    /\ u[1].input_tokens = e.metrics[1].input_tokens
                    /\ u[1].output_tokens = e.metrics[1].output_tokens
                    /\ u[1].total_tokens = e.metrics[1].total_tokens

\* C17 witness: response.completed carries a total_tokens that is not the
\* sum of the two counts, after text was streamed.
C17_Witness ==
    /\ HasType(Frames, "response.completed")
    /\ HasType(Frames, "response.output_text.delta")
    /\ Last(upstream).metrics # None
    /\ Last(Frames).response.usage # None
    /\ Last(Frames).response.usage[1].total_tokens
         # Last(Frames).response.usage[1].input_tokens
             + Last(Frames).response.usage[1].output_tokens

\* The item.exit() calls on item oi logged before call i, and the snapshots
\* the last of them returned for each item 0..n-1, in creation order.
ExitsOf(i, oi) ==
    {j \in 1..(i - 1) : api.calls[j].op = "item_exit" /\ api.calls[j].item = oi}
LastExitOf(i, oi) ==
    CHOOSE j \in ExitsOf(i, oi) : \A k \in ExitsOf(i, oi) : k <= j
RECURSIVE ExitSnapshots(_, _)
ExitSnapshots(i, n) ==
    IF n = 0 THEN <<>>
    ELSE ExitSnapshots(i, n - 1)
         \o (IF ExitsOf(i, n - 1) # {}
             THEN <<api.calls[LastExitOf(i, n - 1)].ret.item>> ELSE <<>>)
ItemsCreatedBefore(i) ==
    Cardinality({j \in 1..(i - 1) : api.calls[j].op = "new_output_item"})

\* C18: ResponseStream.exit leaves the response completed, its output the
\* snapshots returned by exit() of exactly the items exit() was called on, in
\* the order the items were created; an item created and never closed is not
\* in the output, and exit returns the one response.completed frame.
C18_ExitCollectsClosedItems ==
    \A i \in 1..Len(api.calls) :
        api.calls[i].op = "stream_exit" =>
            /\ api.calls[i].response.status = Some("completed")
            /\ api.calls[i].response.output
                 = ExitSnapshots(i, ItemsCreatedBefore(i))
            /\ \A k \in 1..Len(api.calls[i].response.output) :
                 api.calls[i].response.output[k].status = "completed"
            /\ api.calls[i].ret.type = "response.completed"

\* C18 witness: two items were created, the second got a part and was
\* closed, the first never was; exit lists the second alone.
C18_Witness ==
    /\ api.calls # <<>>
    /\ Last(api.calls).op = "stream_exit"
    /\ ItemsCreatedBefore(Len(api.calls)) = 2
    /\ ExitsOf(Len(api.calls), 0) = {}
    /\ Len(Last(api.calls).response.output) = 1
    /\ Len(Last(api.calls).response.output[1].content) = 1

\* C19: the response.created frame on the stream reads, at every later
\* point, as the in_progress snapshot (status in_progress, no output, null
\* usage, the id, created_at and model of the run), whatever exit() did to
\* the response since; response.completed is the only frame that carries
\* status completed.
C19_CreatedKeepsSnapshot ==
    \A i \in 1..Len(Frames) :
        /\ Frames[i].type = "response.created"
             => /\ Frames[i].response.status = Some("in_progress")
                /\ Frames[i].response.output = <<>>
                /\ Frames[i].response.usage = None
                /\ Frames[i].response
                     = ResponseBuilder_status(
                           ResponseBuilder(upstream[1].run_id, upstream[1].created_at,
                                           request.model),
                           "in_progress")
        /\ ("response" \in DOMAIN Frames[i]
               /\ Frames[i].response.status = Some("completed"))
             => Frames[i].type = "response.completed"

\* C19 witness: the translator returned; exit() has set status, output and
\* usage of the response the response.created frame was built from.
C19_Witness ==
    /\ pc = "finished"
    /\ Frames[1].type = "response.created"
    /\ stream[1].response.status = Some("completed")
    /\ stream[1].response.output # <<>>
    /\ stream[1].response.usage # None

\* The type of the frame in data block m.
FrameType(m) == Parsed(m.body[2].json).type
CountMsgs(msgs, P(_)) == Len(SelectSeq(msgs, P))

\* C20: when stream_response has returned, the last four writes are, in
\* this order, response.output_item.done, response.completed, the [DONE]
\* block and the chunk that ends the body (empty, more_body false), and each
\* of the four was written once.  At any point, [DONE] directly follows
\* response.completed, the terminating chunk directly follows [DONE] and is
\* the last message handed to send, and it is handed over only after _do
\* returned without an exception.
C20_SuccessTail ==
    /\ Finished
         => LET n == Len(wire) IN
            /\ inflight = None /\ n = writes /\ n >= 5
            /\ IsLastChunk(wire[n])
            /\ IsSentinel(wire[n - 1])
            /\ IsFrame(wire[n - 2]) /\ FrameType(wire[n - 2]) = "response.completed"
            /\ IsFrame(wire[n - 3]) /\ FrameType(wire[n - 3]) = "response.output_item.done"
            /\ CountMsgs(wire, IsLastChunk) = 1
            /\ CountMsgs(wire, IsSentinel) = 1
            /\ CountType(Frames, "response.completed") = 1
            /\ CountType(Frames, "response.output_item.done") = 1
    /\ \A i \in 1..Len(Sent) :
         /\ IsSentinel(Sent[i])
              => /\ i > 1
                 /\ IsFrame(Sent[i - 1])
                 /\ FrameType(Sent[i - 1]) = "response.completed"
         /\ IsLastChunk(Sent[i])
              => /\ i = Len(Sent) /\ i > 1
                 /\ IsSentinel(Sent[i - 1])
                 /\ pc \in {"return", "finished"}
                 /\ error = "none"

\* C20 witness: stream_response returned after a run that streamed one
\* delta; the terminating chunk is the last message on the wire.
C20_Witness ==
    /\ Finished
    /\ IsLastChunk(Last(wire))
    /\ CountType(Frames, "response.output_text.delta") = 1

\* The part.exit() calls logged between calls j and i on the part handed
\* out by call j.
ExitedBetween(j, i) ==
    \E k \in (j + 1)..(i - 1) :
        api.calls[k].op = "exit" /\ api.calls[k].part = api.calls[j].part

\* C21: new_text_part on an item returns a part only if every part handed
\* out for that item before has been closed by its exit(); called while one
\* is still open it fails and returns none.  (The log holds the calls that
\* returned.)
C21_SecondOpenPartRejected ==
    \A i \in 1..Len(api.calls) :
        api.calls[i].op = "new_text_part" =>
            \A j \in 1..(i - 1) :
                (/\ api.calls[j].op = "new_text_part"
                 /\ api.calls[j].item = api.calls[i].item)
                => ExitedBetween(j, i)

\* Call i of the log is a call of op on the part with handle h.
OnPart(i, op, h) == api.calls[i].op = op /\ api.calls[i].part = h
ExplicitDone(i, h) == OnPart(i, "done", h) /\ api.calls[i].text # None
TouchesPart(i, h) ==
    OnPart(i, "add", h) \/ OnPart(i, "done", h) \/ OnPart(i, "exit", h)

\* The deltas passed to add on part h in calls 1..i, concatenated in order.
RECURSIVE DeltasOf(_, _)
DeltasOf(i, h) ==
    IF i = 0 THEN ""
    ELSE DeltasOf(i - 1, h)
         \o (IF OnPart(i, "add", h) THEN api.calls[i].delta ELSE "")

\* The same, counted from the last done(text) with an explicit text, that
\* text first.
RECURSIVE BufferOf(_, _)
BufferOf(i, h) ==
    IF i = 0 THEN ""
    ELSE IF ExplicitDone(i, h) THEN api.calls[i].text[1]
    ELSE BufferOf(i - 1, h)
         \o (IF OnPart(i, "add", h) THEN api.calls[i].delta ELSE "")

\* C22: done(text) with a text makes that text the part's text, whatever was
\* added before: the response.output_text.done frame carries exactly it.
\* done(None) carries the buffer, which is the concatenation of the added
\* deltas (after the last explicit text, if one was set before).  The
\* response.content_part.done frame of the exit() that follows, and the
\* snapshot exit() appends to the item's content, carry the same text.
C22_DoneTextReplacesBuffer ==
    /\ \A i \in 1..Len(api.calls) :
         api.calls[i].op = "done" =>
            LET c == api.calls[i] IN
            /\ c.ret.type = "response.output_text.done"
            /\ c.text # None => c.ret.text = c.text[1]
            /\ c.text = None => c.ret.text = BufferOf(i - 1, c.part)
            /\ (c.text = None /\ \A j \in 1..(i - 1) : ~ExplicitDone(j, c.part))
                 => c.ret.text = DeltasOf(i - 1, c.part)
    /\ \A k \in 1..Len(api.calls) :
         api.calls[k].op = "exit" =>
            \A i \in 1..(k - 1) :
                (/\ OnPart(i, "done", api.calls[k].part)
                 /\ \A j \in (i + 1)..(k - 1) : ~TouchesPart(j, api.calls[k].part))
                => /\ api.calls[k].ret.type = "response.content_part.done"
                   /\ api.calls[k].ret.part.text = api.calls[i].ret.text
    /\ (api.calls # <<>> /\ Last(api.calls).op = "exit")
         => LET c == Last(api.calls)
                ctx == ItemAt(api.stream[1], api.parts[c.part].ctx).ctx IN
            /\ ctx.content # <<>>
            /\ Last(ctx.content) = c.ret.part

\* C22 witness: a part got a delta, then done("Bye"), then exit(): both
\* frames and the snapshot read "Bye".
C22_Witness ==
    /\ Len(api.calls) >= 3
    /\ LET n == Len(api.calls) IN
       /\ api.calls[n].op = "exit"
       /\ ExplicitDone(n - 1, api.calls[n].part)
       /\ OnPart(n - 2, "add", api.calls[n].part)
       /\ api.calls[n].ret.part.text = "Bye"
       /\ api.calls[n - 1].ret.text = "Bye"

\* The frame handed to send by this step, if it handed one over.
SendsFrame(type) ==
    /\ writes' = writes + 1
    /\ inflight' # None
    /\ IsFrame(inflight'[1])
    /\ FrameType(inflight'[1]) = type

\* This step took a run_content event with a non-empty string.
TookNonEmptyContent ==
    /\ InContentLoop
    /\ TookKind(run_content)
    /\ Last(upstream').content_type = "str"
    /\ ProducesDelta(Last(upstream'))

\* C23: a content part is opened lazily.  Before the first non-empty
\* run_content no content_part.added frame exists.  A non-empty run_content
\* taken while no part is open hands over a content_part.added frame with
\* the next content_index, and the translator's next step, with no read in
\* between, hands over the delta frame of that same chunk, so that on the
\* stream a content_part.added frame is directly followed by a delta frame
\* of its part.  A non-empty run_content taken while a part is open hands
\* over only the delta frame and allocates no content_index.
C23_PartOpenedLazily ==
    /\ [](/\ HasType(Frames, "response.content_part.added")
             => \E k \in 1..Len(upstream) :
                    upstream[k].event = run_content /\ ProducesDelta(upstream[k])
          /\ \A i \in 1..(Len(Frames) - 1) :
                Frames[i].type = "response.content_part.added"
                => /\ Frames[i + 1].type = "response.output_text.delta"
                   /\ Frames[i + 1].content_index = Frames[i].content_index)
    /\ [][ /\ (TookNonEmptyContent /\ ~PartOpen)
             => /\ SendsFrame("response.content_part.added")
                /\ inflight'[1].body[2].json.content_index
                     = CountType(Frames, "response.content_part.added")
                /\ pc' = "content_add"
           /\ (pc = "content_add" /\ inflight = None)
             => /\ SendsFrame("response.output_text.delta")
                /\ inflight'[1].body[2].json.delta = Last(upstream).content[1]
                /\ inflight'[1].body[2].json.content_index
                     = Last(Frames).content_index
                /\ Last(Frames).type = "response.content_part.added"
                /\ reads' = reads
           /\ (TookNonEmptyContent /\ PartOpen)
             => /\ SendsFrame("response.output_text.delta")
                /\ inflight'[1].body[2].json.delta = Last(upstream').content[1]
                /\ inflight'[1].body[2].json.content_index
                     = CountType(Frames, "response.content_part.added") - 1
                /\ ItemAt(stream'[1], oitem[1]).ctx.content_index
                     = ItemAt(stream[1], oitem[1]).ctx.content_index
                /\ pc' = "content"
         ]_vars

\* C23 witness: after a part was closed and an empty chunk skipped, a
\* non-empty chunk opened the second part; its added frame and its delta are
\* the last two frames.
C23_Witness ==
    /\ Len(upstream) = 5
    /\ upstream[3] = RunContentCompletedEvent
    /\ upstream[4] = EmptyContentEvent
    /\ ProducesDelta(upstream[5])
    /\ Len(Frames) >= 2
    /\ Last(Frames).type = "response.output_text.delta"
    /\ Last(Frames).content_index = 1
    /\ Frames[Len(Frames) - 1].type = "response.content_part.added"

\* C24: the first two frames of a stream are response.created with
\* sequence_number 1 and response.output_item.added with sequence_number 2
\* and output_index 0, and they are all that handling run_started emits;
\* neither type occurs again, so one output item is opened per response, and
\* every frame of an item or part belongs to output_index 0.
C24_OneOutputItem ==
    /\ Len(Frames) >= 1
         => /\ Frames[1].type = "response.created"
            /\ Frames[1].sequence_number = 1
    /\ Len(Frames) >= 2
         => /\ Frames[2].type = "response.output_item.added"
            /\ Frames[2].sequence_number = 2
            /\ Frames[2].output_index = 0
    /\ \A i \in 1..Len(Frames) :
         /\ Frames[i].type = "response.created" => i = 1
         /\ Frames[i].type = "response.output_item.added" => i = 2
         /\ "output_index" \in DOMAIN Frames[i] => Frames[i].output_index = 0
    /\ Len(upstream) <= 1 => Len(Frames) <= 2
    /\ (InContentLoop /\ Len(upstream) = 1) => Len(Frames) = 2
    /\ stream # None => Len(stream[1].output_items) <= 1

\* C24 witness: two content parts were opened and closed and the run
\* completed, with the one output_item.added frame.
C24_Witness ==
    /\ Finished
    /\ CountType(Frames, "response.content_part.done") = 2
    /\ CountType(Frames, "response.output_item.added") = 1

\* The calls of next() among calls 1..i that returned an event, and the
\* events they returned, in order.
Deliveries(i) ==
    {j \in 1..i : api.calls[j].op = "next" /\ ~api.calls[j].raised}
RECURSIVE Delivered(_)
Delivered(i) ==
    IF i = 0 THEN <<>>
    ELSE Delivered(i - 1)
         \o (IF i \in Deliveries(i) THEN <<api.calls[i].ret[1]>> ELSE <<>>)

\* C25: the events next() returned are, in order, the events read from the
\* source, each once; at most the last event read is still undelivered, and
\* then it is the buffered one.  next_id() returns the discriminator of the
\* event the following next() returns, however often it is called, and a
\* call reads the source only when nothing is buffered, at most once; the
\* source is not read again after it ended.
C25_EachEventOnceInOrder ==
    LET n == Len(api.calls)
        d == Delivered(n) IN
    /\ Len(d) <= Len(upstream)
    /\ d = SubSeq(upstream, 1, Len(d))
    /\ Len(upstream) - Len(d) = (IF events.event # None THEN 1 ELSE 0)
    /\ events.event # None => events.event[1] = Last(upstream)
    /\ reads = Len(upstream) + (IF events.exhausted THEN 1 ELSE 0)
    /\ \A i \in 1..n :
         LET c == api.calls[i]
             k == Cardinality(Deliveries(i - 1)) IN
         /\ (c.op = "next_id" /\ ~c.raised)
              => /\ k + 1 <= Len(upstream)
                 /\ c.ret = upstream[k + 1].event
         /\ (c.op = "next" /\ ~c.raised) => c.ret = Some(upstream[k + 1])
         /\ (i > 1 /\ api.calls[i - 1].op = "next_id" /\ ~api.calls[i - 1].raised)
              => /\ ~c.called /\ ~c.raised
                 /\ c.op = "next_id" => c.ret = api.calls[i - 1].ret
                 /\ c.op = "next" => c.ret[1].event = api.calls[i - 1].ret
         /\ (c.raised /\ i < n) => (api.calls[i + 1].raised /\ ~api.calls[i + 1].called)

\* C25 witness: next_id() was called twice in a row on the second event,
\* the next() after them returned that event, and the first event had been
\* delivered before.
C25_Witness ==
    /\ Len(api.calls) = 4
    /\ api.calls[1].op = "next" /\ api.calls[1].called
    /\ api.calls[2].op = "next_id" /\ api.calls[2].called
    /\ api.calls[3].op = "next_id" /\ ~api.calls[3].called
    /\ api.calls[4].op = "next" /\ ~api.calls[4].called
    /\ Len(upstream) = 2
    /\ upstream[1] # upstream[2]
    /\ Delivered(4) = upstream

PartFrameTypes ==
    {"response.content_part.added", "response.output_text.delta",
     "response.output_text.done", "response.content_part.done"}

\* Frames F[i - 1] and F[i] are frames of one content part.
SamePartAsPrevious(F, i) ==
    /\ i > 1
    /\ F[i - 1].type \in PartFrameTypes
    /\ F[i - 1].content_index = F[i].content_index
    /\ F[i - 1].output_index = F[i].output_index

\* C26: the frames of a content part are one uninterrupted run:
\* content_part.added, one or more output_text.delta, output_text.done,
\* content_part.done, each frame directly after the one before it and of the
\* same part; the added frame is not preceded by a frame of an unfinished
\* part.  So the final text of a closed part is not empty, nor is the text
\* of any part in the content of the completed item.
C26_PartFramesContiguous ==
    \A i \in 1..Len(Frames) :
        LET f == Frames[i] IN
        /\ f.type = "response.content_part.added"
             => /\ i > 1
                /\ Frames[i - 1].type
                     \in {"response.output_item.added", "response.content_part.done"}
                /\ i < Len(Frames) => Frames[i + 1].type = "response.output_text.delta"
        /\ f.type = "response.output_text.delta"
             => /\ SamePartAsPrevious(Frames, i)
                /\ Frames[i - 1].type
                     \in {"response.content_part.added", "response.output_text.delta"}
                /\ f.delta # ""
        /\ f.type = "response.output_text.done"
             => /\ SamePartAsPrevious(Frames, i)
                /\ Frames[i - 1].type = "response.output_text.delta"
                /\ f.text # ""
        /\ f.type = "response.content_part.done"
             => /\ SamePartAsPrevious(Frames, i)
                /\ Frames[i - 1].type = "response.output_text.done"
                /\ f.part.text # ""
                /\ f.part.text = Frames[i - 1].text
        /\ f.type = "response.output_item.done"
             => \A k \in 1..Len(f.item.content) : f.item.content[k].text # ""
        /\ f.type = "response.completed"
             => \A o \in 1..Len(f.response.output) :
                    \A k \in 1..Len(f.response.output[o].content) :
                        f.response.output[o].content[k].text # ""

\* C26 witness: a part was closed after three deltas, one of them following
\* an empty chunk that left no frame.
C26_Witness ==
    /\ Frames # <<>>
    /\ Last(Frames).type = "response.content_part.done"
    /\ CountType(Frames, "response.output_text.delta") = 3
    /\ CountType(Frames, "response.content_part.added") = 1
    /\ \E k \in 1..Len(upstream) : upstream[k] = EmptyContentEvent

\* The new_text_part calls on item oi among calls 1..i, and the call that
\* handed out the part with handle h.
PartsCreated(i, oi) ==
    {j \in 1..i : api.calls[j].op = "new_text_part" /\ api.calls[j].item = oi}
CreationOf(h) ==
    CHOOSE j \in 1..Len(api.calls) : OnPart(j, "new_text_part", h)
PartCallOps == {"enter", "add", "done", "exit"}

\* C27: every frame of a content part carries the content_index the part
\* got when it was created, and the item_id and output_index of its item,
\* whatever other parts were created in between.  The item's counter is
\* advanced by the creation of a part alone, once: the n-th part of an item
\* has content_index n - 1 and the counter stands at the number of parts
\* created minus one, however many frames were produced.
C27_PartFramesShareIndices ==
    /\ \A i \in 1..Len(api.calls) :
         LET c == api.calls[i] IN
         /\ c.op \in PartCallOps
              => LET n == api.calls[CreationOf(c.part)] IN
                 /\ c.ret.content_index = n.ret
                 /\ c.ret.output_index = n.item
                 /\ c.ret.item_id = ItemAt(api.stream[1], n.item).ctx.item_id
         /\ c.op = "new_text_part"
              => c.ret = Cardinality(PartsCreated(i - 1, c.item))
    /\ api.stream # None
         => \A oi \in 0..api.stream[1].output_index :
                ItemAt(api.stream[1], oi).ctx.content_index
                  = Cardinality(PartsCreated(Len(api.calls), oi)) - 1
    /\ \A i \in 1..Len(Frames) :
         Frames[i].type \in PartFrameTypes
           => /\ Frames[i].item_id = Frames[2].item.id
              /\ Frames[i].output_index = Frames[2].output_index
              /\ Frames[i].content_index
                   = CountType(SubSeq(Frames, 1, i), "response.content_part.added") - 1
    /\ (oitem # None /\ error = "none")
         => ItemAt(stream[1], oitem[1]).ctx.content_index
              = CountType(Frames, "response.content_part.added") - 1

\* C27 witness: a second part of an item was created while the first was in
\* use; a later delta frame of the first part still carries content_index 0.
C27_Witness ==
    \E i, j \in 1..Len(api.calls) :
        /\ i < j
        /\ api.calls[i].op = "new_text_part" /\ api.calls[i].ret = 1
        /\ api.calls[j].op = "add"
        /\ api.calls[j].ret.content_index = 0
        /\ \E k \in 1..(i - 1) :
               api.calls[k].op = "enter" /\ api.calls[k].part = api.calls[j].part

\* Where the events read so far leave the run, judged from the events
\* alone: "start" before run_started, "closed"/"open" as no part or a part
\* is open, "done" after run_completed, "bad" once an event came out of turn.
RECURSIVE SourceStateAt(_)
SourceStateAt(k) ==
    IF k = 0 THEN "start"
    ELSE LET p == SourceStateAt(k - 1)
             e == upstream[k] IN
         IF p \in {"bad", "done"} THEN "bad"
         ELSE IF p = "start"
              THEN (IF e.event = run_started THEN "closed" ELSE "bad")
         ELSE IF e.event = run_content
              THEN (IF e.content_type = "str" /\ ProducesDelta(e) THEN "open" ELSE p)
         ELSE IF e.event = run_content_completed
              THEN (IF p = "open" THEN "closed" ELSE "bad")
         ELSE IF e.event = run_completed
              THEN (IF p = "closed" THEN "done" ELSE "bad")
         ELSE "bad"

\* run_started, (run_content | run_content_completed)*, run_completed, as
\* far as read: every opened part closed before run_completed, no
\* run_content_completed without an open part.
SequenceWellFormed == SourceStateAt(Len(upstream)) # "bad"

\* Every run_content read carries a string: content_type "str", not null.
PayloadsValid ==
    \A k \in 1..Len(upstream) :
        upstream[k].event = run_content
          => upstream[k].content_type = "str" /\ upstream[k].content # None

\* The source ended before run_completed, or the sink failed a write.
SourceOrSinkFailed == events.exhausted \/ error = SendError

\* stream_response returned without an error, [DONE] and then the
\* terminating chunk being the last two writes.
FinishedCleanly ==
    /\ Finished /\ error = "none"
    /\ Len(wire) >= 2
    /\ IsLastChunk(wire[Len(wire)])
    /\ IsSentinel(wire[Len(wire) - 1])

\* C28 as claimed: under a fair schedule, every run whose events are
\* well-formed in their order, whose source does not end early and whose
\* sink fails no write ends with the translator finished cleanly.
C28_Original ==
    <>(FinishedCleanly \/ ~SequenceWellFormed \/ SourceOrSinkFailed)

\* C28: under a fair schedule, every run whose events are well-formed in
\* their order, whose run_content events all carry a non-null string, whose
\* source does not end early and whose sink fails no write ends with the
\* translator finished: [DONE] and the terminating chunk written, no error.
C28_WellFormedRunFinishes ==
    <>(FinishedCleanly \/ ~SequenceWellFormed \/ ~PayloadsValid \/ SourceOrSinkFailed)

\* C28 witness: a well-formed run with two parts and an empty chunk among
\* its events finished cleanly.
C28_Witness ==
    /\ FinishedCleanly
    /\ SequenceWellFormed /\ PayloadsValid /\ ~SourceOrSinkFailed
    /\ \E k \in 1..Len(upstream) : upstream[k] = EmptyContentEvent
    /\ CountType(Frames, "response.content_part.done") = 2

\* A run_completed event has been read from the source.
ReadRunCompleted ==
    \E k \in 1..Len(upstream) : upstream[k].event = run_completed

\* C29: once run_completed has been read, the source is not asked again:
\* no step reads it or touches the iterator's buffer, so run_completed is
\* the last event ever read and whatever the source holds after it is
\* neither read nor validated.  The run that consumed it ends as it would
\* with a source that ends there: the iterator is left empty and not
\* exhausted, and every read delivered an event.
C29_NoReadAfterRunCompleted ==
    /\ [](/\ \A k \in 1..Len(upstream) :
               upstream[k].event = run_completed => k = Len(upstream)
          /\ (ReadRunCompleted /\ error = "none")
               => /\ events.event = None
                  /\ ~events.exhausted
                  /\ reads = Len(upstream)
                  /\ event = Some(Last(upstream)))
    /\ [][ReadRunCompleted
            => /\ reads' = reads
               /\ upstream' = upstream
               /\ events' = events
               /\ event' = event]_vars

\* C29 witness: the translator finished on a run_completed read while the
\* source could still have delivered events.
C29_Witness ==
    /\ Finished
    /\ ReadRunCompleted
    /\ Len(upstream) = 2
    /\ Len(upstream) < MaxEvents
    /\ ~events.exhausted

\* The clients made so far on which aclose() has not been called.
LiveClients ==
    {i \in 1..Len(manager.clients) : ~manager.clients[i].aclosed}

\* Calls i < j of the log with no close() begun or returned in between.
NoCloseBetween(i, j) ==
    \A k \in (i + 1)..(j - 1) : manager.calls[k].op = "get_async_client"

\* C30: the manager has at most one live client, and it is the one it
\* holds: a client it has forgotten has been closed.  get_async_client()
\* creates a client exactly when none is held, never returns one that
\* aclose() was called on, and returns the same one as long as no close()
\* comes in between; close() without a client changes nothing, and close()
\* forgets the client it closed.
C30_OneLiveClient ==
    /\ Cardinality(LiveClients) <= 1
    /\ \A i \in LiveClients : manager.async_client = Some(i)
    /\ \A j \in 1..Len(manager.calls) :
         LET c == manager.calls[j] IN
         /\ c.op = "get_async_client"
              => /\ ~c.aclosed
                 /\ \A i \in 1..(j - 1) :
                      (manager.calls[i].op = "get_async_client" /\ NoCloseBetween(i, j))
                        => (manager.calls[i].ret = c.ret /\ ~c.created)
         /\ c.op = "close_returned"
              => /\ c.forgot # None
                 /\ manager.clients[c.forgot[1]].aclosed

====
